---- MODULE Spec2Model ----
\* A model of ManagedTopNBottomNState (top_n_bottom_n_state.rs): two sorted
\* caches over a cell-based key-value store, with a buffer of pending deltas;
\* and of Chain (chain.rs): an executor reading a snapshot executor to its
\* EOF and an mview executor from then on.
EXTENDS Integers, Sequences, FiniteSets, TLC

\* ---------------------------------------------------------------- bounds
\* Ordered keys are 1..MaxKey under the usual order (OrderedRow's total order).
MaxKey == 3
\* Number of distinct row payloads.
NumRows == 2
\* Number of calls made on the states of one run.
MaxCalls == 5
\* Largest n given to retain_top_n / retain_bottom_n.
MaxRetain == 1
\* Chunks carry the payloads 1..MaxMsg.
MaxMsg == 4
\* Number of next() calls made on one Chain.
MaxPolls == 5

\* ------------------------------------------------------ program constants
\* data_type_kinds.len(): the test's schema has two columns.
NumCols == 2
\* Keyspace::executor_root(store, 0x2333)
ExecutorId == 9011
\* The test constructs every state with cache_size Some(1).
TestCacheSize == 1

Keys == 1..MaxKey
\* A Row is a tuple of NumCols cells; cell i of payload v differs from cell j.
Rows == {<<v, NumRows + 1 - v>> : v \in 1..NumRows}
None == <<>>
Some(x) == <<x>>
IsSome(o) == o # None
Unwrap(o) == o[1]
\* The element of a one-element set; binding a value through one evaluates it once.
The(S) == CHOOSE x \in S : TRUE

VARIABLES
    top_n,            \* BTreeMap<OrderedRow, Row>
    bottom_n,         \* BTreeMap<OrderedRow, Row>
    flush_buffer,     \* BTreeMap<OrderedRow, FlushStatus<Row>>
    total_count,      \* usize, held as its representative modulo 2^64 nearest 0
    top_n_count,      \* Option<usize>
    bottom_n_count,   \* Option<usize>
    store,            \* the state store: encoded key -> value bytes
    debug_assertions, \* the build: debug (assertions, overflow checks) or release
    flushed_count,    \* total_count as of the last successful flush (the checkpoint)
    flushed_rows,     \* the logical rows as of the last successful flush
    count_ok,         \* the state was constructed with the number of rows in the store
    dropped,          \* what the dropped state showed, until the new state is refilled
    calls,            \* number of calls made so far
    logical,          \* the rows at construction with every insert and delete applied
    trail,            \* the last call: its store calls, and the test's run so far
    ret,              \* the last call and what it returned
    state,            \* Chain: ChainState
    snapshot,         \* Chain: what the snapshot executor answered to each poll so far
    mview,            \* Chain: what the mview executor answered to each poll so far
    returned          \* Chain: what next() returned to each call so far

top_n_vars == <<top_n, bottom_n, flush_buffer, total_count, top_n_count, bottom_n_count,
                store, debug_assertions, flushed_count, flushed_rows, count_ok,
                dropped, calls, logical, trail, ret>>
chain_vars == <<state, snapshot, mview, returned>>
vars == <<top_n, bottom_n, flush_buffer, total_count, top_n_count, bottom_n_count,
          store, debug_assertions, flushed_count, flushed_rows, count_ok,
          dropped, calls, logical, trail, ret, state, snapshot, mview, returned>>

\* Chain::new: no executor polled yet.
Chain_new ==
    /\ state = "ReadingSnapshot"
    /\ snapshot = <<>>
    /\ mview = <<>>
    /\ returned = <<>>

\* ---------------------------------------------------------- BTreeMap helpers
EmptyMap == [x \in {} |-> None]
MapInsert(m, k, v) == [x \in DOMAIN m \cup {k} |-> IF x = k THEN v ELSE m[x]]
MapRemove(m, k) == [x \in DOMAIN m \ {k} |-> m[x]]
MapGet(m, k) == IF k \in DOMAIN m THEN Some(m[k]) ELSE None
MaxOf(S) == CHOOSE x \in S : \A y \in S : y <= x
MinOf(S) == CHOOSE x \in S : \A y \in S : x <= y
first_key_value(m) == IF DOMAIN m = {} THEN None
                      ELSE Some(<<MinOf(DOMAIN m), m[MinOf(DOMAIN m)]>>)
last_key_value(m) == IF DOMAIN m = {} THEN None
                     ELSE Some(<<MaxOf(DOMAIN m), m[MaxOf(DOMAIN m)]>>)
pop_first(m) == MapRemove(m, MinOf(DOMAIN m))
pop_last(m) == MapRemove(m, MaxOf(DOMAIN m))
RECURSIVE SortedSeq(_)
SortedSeq(S) == IF S = {} THEN <<>> ELSE <<MinOf(S)>> \o SortedSeq(S \ {MinOf(S)})

\* ------------------------------------------------------------- FlushStatus
Insert(r) == [tag |-> "Insert", row |-> r]
DeleteInsert(r) == [tag |-> "DeleteInsert", row |-> r]
Delete == [tag |-> "Delete", row |-> None]

\* do_insert forgetting a pending Delete: the entry becomes a plain Insert.
do_insert_plain(buf, k, r) == MapInsert(buf, k, Insert(r))

\* FlushStatus::do_insert on flush_buffer.entry(key)
do_insert(buf, k, r) ==
    IF k \notin DOMAIN buf THEN MapInsert(buf, k, Insert(r))
    ELSE IF buf[k].tag = "Insert" THEN MapInsert(buf, k, Insert(r))
    ELSE MapInsert(buf, k, DeleteInsert(r))

\* FlushStatus::do_delete on flush_buffer.entry(key)
do_delete(buf, k) ==
    IF k \notin DOMAIN buf THEN MapInsert(buf, k, Delete)
    ELSE IF buf[k].tag = "Insert" THEN MapRemove(buf, k)
    ELSE MapInsert(buf, k, Delete)

\* FlushStatus::into_option
into_option(st) == IF st.tag = "Delete" THEN None ELSE Some(st.row)

\* ------------------------------------------------- the cell-based encoding
\* OrderedRow::serialize / OrderedRowDeserializer::deserialize: order-preserving.
serialize_key(k) == <<k>>
deserialize_key(b) == b[1]
\* serialize_cell_idx: the cell index as a big-endian u32 (4 bytes).
serialize_cell_idx(i) == <<0, 0, 0, i>>
\* Row::serialize: every cell as a non-null tag followed by its value.
RECURSIVE serialize_row(_)
serialize_row(r) == IF r = <<>> THEN <<>> ELSE <<1, Head(r)>> \o serialize_row(Tail(r))
\* RowDeserializer::deserialize: reads one datum per column from the front.
deserialize_row(b) == [i \in 1..NumCols |-> b[2 * i]]
\* Keyspace::prefixed_key and the prefix scan_strip_prefix removes.
Prefix == <<ExecutorId>>
prefixed_key(b) == Prefix \o b

RECURSIVE LexLess(_, _)
LexLess(a, b) ==
    IF a = <<>> THEN b # <<>>
    ELSE IF b = <<>> THEN FALSE
    ELSE IF Head(a) # Head(b) THEN Head(a) < Head(b)
    ELSE LexLess(Tail(a), Tail(b))
LexMin(S) == CHOOSE x \in S : \A y \in S : x = y \/ LexLess(x, y)
RECURSIVE LexSorted(_)
LexSorted(S) == IF S = {} THEN <<>> ELSE <<LexMin(S)>> \o LexSorted(S \ {LexMin(S)})

\* ---------------------------------------------------------- the state store
\* StateStore::ingest_batch: Some(bytes) puts, None deletes; applied as one batch.
RECURSIVE ingest_batch(_, _)
ingest_batch(st, writes) ==
    IF writes = <<>> THEN st
    ELSE LET w == Head(writes)
         IN ingest_batch(IF IsSome(w[2]) THEN MapInsert(st, w[1], Unwrap(w[2]))
                         ELSE MapRemove(st, w[1]),
                         Tail(writes))

\* Keyspace::scan_strip_prefix(None): every entry under the prefix, ascending by
\* key, the prefix removed.
scan_strip_prefix(st) ==
    LET mine == {key \in DOMAIN st : SubSeq(key, 1, Len(Prefix)) = Prefix}
    IN The({[i \in 1..Len(ord) |->
                <<SubSeq(ord[i], Len(Prefix) + 1, Len(ord[i])), st[ord[i]]>>]
            : ord \in {LexSorted(mine)}})

\* scan_from_storage(None): NumCols consecutive cells make one row; the key is
\* the cell's key without its 4-byte cell index.
RECURSIVE ConcatCells(_, _, _)
ConcatCells(cells, from, to) ==
    IF from > to THEN <<>> ELSE cells[from][2] \o ConcatCells(cells, from + 1, to)
scan_from_storage(st) ==
    The({[j \in 1..(Len(cells) \div NumCols) |->
            LET pk == cells[j * NumCols][1]
            IN <<deserialize_key(SubSeq(pk, 1, Len(pk) - 4)),
                 deserialize_row(ConcatCells(cells, (j - 1) * NumCols + 1, j * NumCols))>>]
         : cells \in {scan_strip_prefix(st)}})

\* The write batch flush builds from the taken flush_buffer.
RECURSIVE CellWrites(_, _, _)
CellWrites(k, row_option, cell_idx) ==
    IF cell_idx >= NumCols THEN <<>>
    ELSE LET key_encoded == prefixed_key(serialize_key(k) \o serialize_cell_idx(cell_idx))
         IN <<IF IsSome(row_option)
              THEN <<key_encoded, Some(serialize_row(Unwrap(row_option)))>>
              ELSE <<key_encoded, None>>>>
            \o CellWrites(k, row_option, cell_idx + 1)
RECURSIVE WriteBatches(_, _)
WriteBatches(buf, ks) ==
    IF ks = <<>> THEN <<>>
    ELSE CellWrites(Head(ks), into_option(buf[Head(ks)]), 0) \o WriteBatches(buf, Tail(ks))
write_batches(buf) == WriteBatches(buf, SortedSeq(DOMAIN buf))

\* ------------------------------------------------------------ the accessors
is_dirty == DOMAIN flush_buffer # {}

top_element ==
    IF total_count = 0 THEN None
    ELSE IF DOMAIN top_n = {} THEN last_key_value(bottom_n)
    ELSE last_key_value(top_n)

bottom_element ==
    IF total_count = 0 THEN None
    ELSE IF DOMAIN bottom_n = {} THEN first_key_value(top_n)
    ELSE first_key_value(bottom_n)

Ret(op, kind, val) == [op |-> op, kind |-> kind, val |-> val]
\* A panic unwinds through the state: no further call is made on it.
Alive == ret.kind # "panic"
\* The test of total_count left out: the count is taken to be positive.
AlwaysPositive(tc) == TRUE
\* total_count > 0 on the usize that total_count represents.
Positive(tc) == tc # 0

\* The logical rows: the rows in storage adjusted by the pending deltas.
StoreRows(st) ==
    The({[k \in {kv[i][1] : i \in 1..Len(kv)} |->
            (CHOOSE p \in {kv[i] : i \in 1..Len(kv)} : p[1] = k)[2]]
         : kv \in {scan_from_storage(st)}})
LogicalRowsOf(st, buf) ==
    LET sr == StoreRows(st)
        ks == {k \in DOMAIN sr \cup DOMAIN buf : k \in DOMAIN buf => buf[k].tag # "Delete"}
    IN [k \in ks |-> IF k \in DOMAIN buf THEN buf[k].row ELSE sr[k]]
LogicalRows == LogicalRowsOf(store, flush_buffer)

NoDrop == [happened |-> FALSE]
Config == <<top_n_count, bottom_n_count, debug_assertions>>
Checkpoint == <<store, flushed_count, flushed_rows>>

\* The row the test's run inserts under key k.
RowOf(k) == <<1 + (k % NumRows), NumRows - (k % NumRows)>>
\* The calls of the test's run: keys in OrderedRow order [desc, asc], so
\* ("abd", 3) is key 1, ("abc", 3) key 2 and ("ab", 4) key 3.
Script == <<<<"insert", 3, RowOf(3)>>, <<"insert", 1, RowOf(1)>>, <<"insert", 2, RowOf(2)>>,
            <<"flush", FALSE>>, <<"pop_top_element">>, <<"pop_top_element">>>>
\* The call c is the next call of the test's run.
OnScript(c) ==
    trail.on_script /\ trail.step < Len(Script) /\ Script[trail.step + 1] = c

\* The call c keeps the state's life plain: no retain, no insert of a key that
\* is a logical row already, no delete of a key that is none, fill_in_cache
\* only as the first call on a new state and succeeding.
Plain(c, failed) ==
    /\ c[1] \notin {"retain_top_n", "retain_bottom_n", "retain_both_n"}
    /\ c[1] = "insert" => c[2] \notin DOMAIN logical
    /\ c[1] = "delete" => c[2] \in DOMAIN logical
    /\ c[1] = "fill_in_cache" => (ret.op = "new" /\ ~failed)

\* The call c keeps the state one to drain: an insert of a key that is no
\* logical row yet, a flush, a retain, a pop, or fill_in_cache as the first
\* call on a new state and succeeding.
Drainable(c, failed) ==
    /\ c[1] # "delete"
    /\ c[1] = "insert" => c[2] \notin DOMAIN logical
    /\ c[1] = "fill_in_cache" => (ret.op = "new" /\ ~failed)

\* What is recorded of a call c: the store calls it made, whether the store
\* failed it, whether it directly follows a flush that returned Ok, how far
\* the test's run has come, and whether the state's life has been plain and
\* whether it is one to drain.
Trail(c, store_calls, failed) ==
    trail' = [on_script |-> OnScript(c),
              plain |-> IF c[1] = "new" THEN TRUE ELSE trail.plain /\ Plain(c, failed),
              drain |-> IF c[1] = "new" THEN TRUE ELSE trail.drain /\ Drainable(c, failed),
              step |-> IF OnScript(c) THEN trail.step + 1 ELSE trail.step,
              store_calls |-> store_calls,
              failed |-> failed,
              after_flush |-> Alive /\ ret.op = "flush" /\ ret.kind = "ok"]

\* A call on the state: the state is usable, the run has calls left (the
\* test's run is followed to its end, and so is a recovery: the fill_in_cache
\* on a new state), and a state recovered from a checkpoint is first refilled
\* (fill_in_cache at startup).
Refilled == ~(ret.op = "new" /\ dropped.happened)
Budget(c) ==
    /\ calls < MaxCalls \/ OnScript(c) \/ (c[1] = "fill_in_cache" /\ ret.op = "new")
    /\ calls' = calls + 1
    /\ UNCHANGED chain_vars
Call(c) == Alive /\ Refilled /\ Budget(c) /\ dropped' = NoDrop

\* ------------------------------------------------------------------- insert
InsertToTop(k) ==
    IF Cardinality(DOMAIN top_n) > Cardinality(DOMAIN bottom_n)
    THEN Unwrap(first_key_value(top_n))[1] < k
    ELSE DOMAIN bottom_n = {} \/ Unwrap(last_key_value(bottom_n))[1] <= k

insert(k, r) ==
    /\ Call(<<"insert", k, r>>)
    /\ Trail(<<"insert", k, r>>, 0, FALSE)
    /\ logical' = MapInsert(logical, k, r)
    /\ IF InsertToTop(k)
       THEN top_n' = MapInsert(top_n, k, r) /\ UNCHANGED bottom_n
       ELSE bottom_n' = MapInsert(bottom_n, k, r) /\ UNCHANGED top_n
    /\ flush_buffer' = do_insert(flush_buffer, k, r)
    /\ total_count' = total_count + 1
    /\ ret' = Ret("insert", "ok", None)
    /\ UNCHANGED <<Config, Checkpoint, count_ok>>

\* ----------------------------------------------------------- scan_and_merge
\* The while loop: skip the buffered keys below the storage key.
RECURSIVE Advance(_, _, _)
Advance(bk, cur, key_from_storage) ==
    IF cur <= Len(bk) /\ bk[cur] < key_from_storage
    THEN Advance(bk, cur + 1, key_from_storage)
    ELSE cur

\* The closure insert_process; cur is the position of flush_buffer_iter, which
\* both parts share. unreachable!() panics.
RECURSIVE insert_process(_, _, _, _, _)
insert_process(cache, part_kv_pairs, buf, bk, cur) ==
    IF part_kv_pairs = <<>> THEN [cache |-> cache, cur |-> cur, panic |-> FALSE]
    ELSE LET key_from_storage == Head(part_kv_pairs)[1]
             row_from_storage == Head(part_kv_pairs)[2]
             rest == Tail(part_kv_pairs)
             c == Advance(bk, cur, key_from_storage)
         IN IF c > Len(bk)
            THEN insert_process(MapInsert(cache, key_from_storage, row_from_storage),
                                rest, buf, bk, c)
            ELSE IF key_from_storage = bk[c]
            THEN IF buf[bk[c]].tag = "Delete"
                 THEN insert_process(cache, rest, buf, bk, c)
                 ELSE insert_process(MapInsert(cache, key_from_storage, buf[bk[c]].row),
                                     rest, buf, bk, c)
            ELSE IF key_from_storage > bk[c]
            THEN insert_process(cache, rest, buf, bk, c + 1)
            ELSE [cache |-> cache, cur |-> c, panic |-> TRUE]

\* scan_and_merge once the scan has returned kv_pairs: the first half of the
\* storage rows goes through insert_process into bottom_n, the rest into top_n.
merge_parts(kv_pairs, buf, bk, bottom, top) ==
    LET half == Len(kv_pairs) \div 2
    IN The({IF p1.panic THEN [kind |-> "panic", bottom_n |-> p1.cache, top_n |-> top]
            ELSE The({[kind |-> IF p2.panic THEN "panic" ELSE "ok",
                       bottom_n |-> p1.cache, top_n |-> p2.cache]
                      : p2 \in {insert_process(top, SubSeq(kv_pairs, half + 1, Len(kv_pairs)),
                                               buf, bk, p1.cur)}})
            : p1 \in {insert_process(bottom, SubSeq(kv_pairs, 1, half), buf, bk, 1)}})

\* The store's answers to a scan: an error, or the rows it holds.
ScanErr == None
ScanOk(st) == Some(scan_from_storage(st))

\* scan_and_merge dropping the scan's error and carrying on with the caches as they are.
scan_and_merge_swallow(scan, buf, bottom, top) ==
    IF scan = ScanErr THEN [kind |-> "ok", bottom_n |-> bottom, top_n |-> top]
    ELSE The({merge_parts(Unwrap(scan), buf, bk, bottom, top) : bk \in {SortedSeq(DOMAIN buf)}})

scan_and_merge(scan, buf, bottom, top) ==
    IF scan = ScanErr THEN [kind |-> "err", bottom_n |-> bottom, top_n |-> top]
    ELSE The({merge_parts(Unwrap(scan), buf, bk, bottom, top) : bk \in {SortedSeq(DOMAIN buf)}})

\* ------------------------------------------------------------------- delete
\* scanned: the call went to the store; deleted: the key whose delete it recorded.
Outcome(kind, val, top, bottom, buf, tc) ==
    [kind |-> kind, val |-> val, top_n |-> top, bottom_n |-> bottom,
     flush_buffer |-> buf, total_count |-> tc, scanned |-> FALSE, deleted |-> None]

\* delete undoing its removal, its delta and its decrement when the scan fails.
delete_outcome_rolled_back(key, scan) ==
    LET prev_top_n_entry == MapGet(top_n, key)
        prev_bottom_n_entry == MapGet(bottom_n, key)
        top1 == MapRemove(top_n, key)
        bottom1 == MapRemove(bottom_n, key)
        buf1 == do_delete(flush_buffer, key)
        tc1 == total_count - 1
    IN IF debug_assertions /\ ~IsSome(prev_top_n_entry) /\ ~IsSome(prev_bottom_n_entry)
       THEN Outcome("panic", None, top1, bottom1, flush_buffer, total_count)
       ELSE IF debug_assertions /\ total_count = 0
       THEN [Outcome("panic", None, top1, bottom1, buf1, total_count)
                EXCEPT !.deleted = Some(key)]
       ELSE IF DOMAIN top1 = {} /\ DOMAIN bottom1 = {} /\ Positive(tc1)
       THEN The({IF m.kind = "err"
                 THEN [Outcome("err", None, top_n, bottom_n, flush_buffer, total_count)
                          EXCEPT !.scanned = TRUE]
                 ELSE [Outcome(m.kind, IF m.kind = "ok" THEN prev_top_n_entry ELSE None,
                               m.top_n, m.bottom_n, buf1, tc1)
                          EXCEPT !.scanned = TRUE, !.deleted = Some(key)]
                 : m \in {scan_and_merge(scan, buf1, bottom1, top1)}})
       ELSE [Outcome("ok", prev_top_n_entry, top1, bottom1, buf1, tc1)
                EXCEPT !.deleted = Some(key)]

\* What delete(key) returns and leaves behind; scan is the store's answer
\* should the call scan. A debug build panics at the debug_assert and at the
\* subtraction overflow; a release build has neither check and wraps.
delete_outcome(key, scan) ==
    LET prev_top_n_entry == MapGet(top_n, key)
        prev_bottom_n_entry == MapGet(bottom_n, key)
        top1 == MapRemove(top_n, key)
        bottom1 == MapRemove(bottom_n, key)
        buf1 == do_delete(flush_buffer, key)
        tc1 == total_count - 1
    IN IF debug_assertions /\ ~IsSome(prev_top_n_entry) /\ ~IsSome(prev_bottom_n_entry)
       THEN Outcome("panic", None, top1, bottom1, flush_buffer, total_count)
       ELSE IF debug_assertions /\ total_count = 0
       THEN [Outcome("panic", None, top1, bottom1, buf1, total_count)
                EXCEPT !.deleted = Some(key)]
       ELSE IF DOMAIN top1 = {} /\ DOMAIN bottom1 = {} /\ Positive(tc1)
       THEN The({[Outcome(m.kind, IF m.kind = "ok" THEN prev_top_n_entry ELSE None,
                          m.top_n, m.bottom_n, buf1, tc1)
                     EXCEPT !.scanned = TRUE, !.deleted = Some(key)]
                 : m \in {scan_and_merge(scan, buf1, bottom1, top1)}})
       ELSE [Outcome("ok", prev_top_n_entry, top1, bottom1, buf1, tc1)
                EXCEPT !.deleted = Some(key)]

Apply(c, scan, o) ==
    /\ top_n' = o.top_n
    /\ bottom_n' = o.bottom_n
    /\ flush_buffer' = o.flush_buffer
    /\ total_count' = o.total_count
    /\ logical' = IF IsSome(o.deleted) THEN MapRemove(logical, Unwrap(o.deleted)) ELSE logical
    /\ Trail(c, IF o.scanned THEN 1 ELSE 0, o.scanned /\ scan = ScanErr)
    /\ UNCHANGED <<Config, Checkpoint, count_ok>>

delete(key, scan) ==
    /\ Call(<<"delete", key>>)
    /\ \E o \in {delete_outcome(key, scan)} :
            Apply(<<"delete", key>>, scan, o) /\ ret' = Ret("delete", o.kind, o.val)

\* ---------------------------------------------------------------------- pop
\* pop without the test of total_count: the cache to pop is consulted at once.
pop_outcome_unguarded(entry, scan) ==
    IF ~IsSome(entry)
    THEN Outcome("panic", None, top_n, bottom_n, flush_buffer, total_count)
    ELSE LET key == Unwrap(entry)[1]
         IN The({IF o.kind # "ok" THEN o
                 ELSE IF ~IsSome(o.val) THEN [o EXCEPT !.kind = "panic"]
                 ELSE [o EXCEPT !.val = Some(<<key, Unwrap(o.val)>>)]
                 : o \in {delete_outcome(key, scan)}})

\* pop_top_element / pop_bottom_element, given the entry the cache to pop
\* yields: unwrap panics on no entry, and on delete returning no row.
pop_outcome(entry, scan) ==
    IF total_count = 0
    THEN Outcome("ok", None, top_n, bottom_n, flush_buffer, total_count)
    ELSE IF ~IsSome(entry)
    THEN Outcome("panic", None, top_n, bottom_n, flush_buffer, total_count)
    ELSE LET key == Unwrap(entry)[1]
         IN The({IF o.kind # "ok" THEN o
                 ELSE IF ~IsSome(o.val) THEN [o EXCEPT !.kind = "panic"]
                 ELSE [o EXCEPT !.val = Some(<<key, Unwrap(o.val)>>)]
                 : o \in {delete_outcome(key, scan)}})

\* pop_top_element popping the smallest entry of the cache instead of the largest.
pop_top_element_smallest(scan) ==
    /\ Call(<<"pop_top_element">>)
    /\ LET cache_to_pop == IF DOMAIN top_n = {} THEN bottom_n ELSE top_n
       IN \E o \in {pop_outcome(first_key_value(cache_to_pop), scan)} :
              Apply(<<"pop_top_element">>, scan, o)
                /\ ret' = Ret("pop_top_element", o.kind, o.val)

pop_top_element(scan) ==
    /\ Call(<<"pop_top_element">>)
    /\ LET cache_to_pop == IF DOMAIN top_n = {} THEN bottom_n ELSE top_n
       IN \E o \in {pop_outcome(last_key_value(cache_to_pop), scan)} :
              Apply(<<"pop_top_element">>, scan, o)
                /\ ret' = Ret("pop_top_element", o.kind, o.val)

pop_bottom_element(scan) ==
    /\ Call(<<"pop_bottom_element">>)
    /\ LET cache_to_pop == IF DOMAIN bottom_n = {} THEN top_n ELSE bottom_n
       IN \E o \in {pop_outcome(first_key_value(cache_to_pop), scan)} :
              Apply(<<"pop_bottom_element">>, scan, o)
                /\ ret' = Ret("pop_bottom_element", o.kind, o.val)

\* ------------------------------------------------------------------- retain
\* retain_top_n evicting the largest entry of the cache instead of the smallest.
RECURSIVE retain_top_evict_max(_, _)
retain_top_evict_max(m, n) ==
    IF Cardinality(DOMAIN m) > n THEN retain_top_evict_max(pop_last(m), n) ELSE m

RECURSIVE retain_top(_, _)
retain_top(m, n) == IF Cardinality(DOMAIN m) > n THEN retain_top(pop_first(m), n) ELSE m
RECURSIVE retain_bottom(_, _)
retain_bottom(m, n) == IF Cardinality(DOMAIN m) > n THEN retain_bottom(pop_last(m), n) ELSE m

retain_top_n(n) ==
    /\ Call(<<"retain_top_n", n>>)
    /\ Trail(<<"retain_top_n", n>>, 0, FALSE)
    /\ top_n' = retain_top(top_n, n)
    /\ ret' = Ret("retain_top_n", "ok", None)
    /\ UNCHANGED <<bottom_n, flush_buffer, total_count, Config, Checkpoint, count_ok, logical>>

retain_bottom_n(n) ==
    /\ Call(<<"retain_bottom_n", n>>)
    /\ Trail(<<"retain_bottom_n", n>>, 0, FALSE)
    /\ bottom_n' = retain_bottom(bottom_n, n)
    /\ ret' = Ret("retain_bottom_n", "ok", None)
    /\ UNCHANGED <<top_n, flush_buffer, total_count, Config, Checkpoint, count_ok, logical>>

retain_both_n ==
    /\ Call(<<"retain_both_n">>)
    /\ Trail(<<"retain_both_n">>, 0, FALSE)
    /\ top_n' = IF IsSome(top_n_count) THEN retain_top(top_n, Unwrap(top_n_count)) ELSE top_n
    /\ bottom_n' = IF IsSome(bottom_n_count)
                   THEN retain_bottom(bottom_n, Unwrap(bottom_n_count)) ELSE bottom_n
    /\ ret' = Ret("retain_both_n", "ok", None)
    /\ UNCHANGED <<flush_buffer, total_count, Config, Checkpoint, count_ok, logical>>

\* ------------------------------------------------------------ fill_in_cache
\* The loops of fill_in_cache inserting nothing.
InsertNone(cache, kvs) == cache

RECURSIVE InsertAll(_, _)
InsertAll(cache, kvs) ==
    IF kvs = <<>> THEN cache
    ELSE InsertAll(MapInsert(cache, Head(kvs)[1], Head(kvs)[2]), Tail(kvs))

\* fill_in_cache loading only the second half of the rows (into top_n).
fill_in_cache_top_only(scan) ==
    /\ Alive
    /\ Budget(<<"fill_in_cache">>)
    /\ dropped' = IF ret.op = "new" THEN dropped ELSE NoDrop
    /\ Trail(<<"fill_in_cache">>, IF debug_assertions /\ is_dirty THEN 0 ELSE 1,
             ~(debug_assertions /\ is_dirty) /\ scan = ScanErr)
    /\ UNCHANGED <<bottom_n, flush_buffer, total_count, Config, Checkpoint, count_ok, logical>>
    /\ IF debug_assertions /\ is_dirty
       THEN ret' = Ret("fill_in_cache", "panic", None) /\ UNCHANGED top_n
       ELSE IF scan = ScanErr
       THEN ret' = Ret("fill_in_cache", "err", None) /\ UNCHANGED top_n
       ELSE \E pk_row_bytes \in {Unwrap(scan)} :
            LET half == Len(pk_row_bytes) \div 2
            IN /\ top_n' = InsertAll(top_n, SubSeq(pk_row_bytes, half + 1, Len(pk_row_bytes)))
               /\ ret' = Ret("fill_in_cache", "ok", None)

\* fill_in_cache trimming each cache to its configured size once it is loaded.
fill_in_cache_to_capacity(scan) ==
    /\ Alive
    /\ Budget(<<"fill_in_cache">>)
    /\ dropped' = IF ret.op = "new" THEN dropped ELSE NoDrop
    /\ Trail(<<"fill_in_cache">>, IF debug_assertions /\ is_dirty THEN 0 ELSE 1,
             ~(debug_assertions /\ is_dirty) /\ scan = ScanErr)
    /\ UNCHANGED <<flush_buffer, total_count, Config, Checkpoint, count_ok, logical>>
    /\ IF debug_assertions /\ is_dirty
       THEN /\ ret' = Ret("fill_in_cache", "panic", None)
            /\ UNCHANGED <<top_n, bottom_n>>
       ELSE IF scan = ScanErr
       THEN /\ ret' = Ret("fill_in_cache", "err", None)
            /\ UNCHANGED <<top_n, bottom_n>>
       ELSE \E pk_row_bytes \in {Unwrap(scan)} :
            LET half == Len(pk_row_bytes) \div 2
            IN /\ bottom_n' = retain_bottom(InsertAll(bottom_n, SubSeq(pk_row_bytes, 1, half)),
                                            Unwrap(bottom_n_count))
               /\ top_n' = retain_top(InsertAll(top_n, SubSeq(pk_row_bytes, half + 1,
                                                             Len(pk_row_bytes))),
                                      Unwrap(top_n_count))
               /\ ret' = Ret("fill_in_cache", "ok", None)

fill_in_cache(scan) ==
    /\ Alive
    /\ Budget(<<"fill_in_cache">>)
    /\ dropped' = IF ret.op = "new" THEN dropped ELSE NoDrop
    /\ Trail(<<"fill_in_cache">>, IF debug_assertions /\ is_dirty THEN 0 ELSE 1,
             ~(debug_assertions /\ is_dirty) /\ scan = ScanErr)
    /\ UNCHANGED <<flush_buffer, total_count, Config, Checkpoint, count_ok, logical>>
    /\ IF debug_assertions /\ is_dirty
       THEN /\ ret' = Ret("fill_in_cache", "panic", None)
            /\ UNCHANGED <<top_n, bottom_n>>
       ELSE IF scan = ScanErr
       THEN /\ ret' = Ret("fill_in_cache", "err", None)
            /\ UNCHANGED <<top_n, bottom_n>>
       ELSE \E pk_row_bytes \in {Unwrap(scan)} :
            LET half == Len(pk_row_bytes) \div 2
            IN /\ bottom_n' = InsertAll(bottom_n, SubSeq(pk_row_bytes, 1, half))
               /\ top_n' = InsertAll(top_n, SubSeq(pk_row_bytes, half + 1, Len(pk_row_bytes)))
               /\ ret' = Ret("fill_in_cache", "ok", None)

\* -------------------------------------------------------------------- flush
\* flush trimming top_n to its configured size once the batch is ingested.
flush_and_retain(ingest_fails) ==
    /\ Call(<<"flush", ingest_fails>>)
    /\ Trail(<<"flush", ingest_fails>>, IF is_dirty THEN 1 ELSE 0, is_dirty /\ ingest_fails)
    /\ UNCHANGED <<bottom_n, total_count, Config, count_ok, logical>>
    /\ IF ~is_dirty
       THEN /\ ret' = Ret("flush", "ok", None)
            /\ flushed_count' = total_count
            /\ flushed_rows' = LogicalRows
            /\ UNCHANGED <<top_n, flush_buffer, store>>
       ELSE /\ flush_buffer' = EmptyMap
            /\ IF ingest_fails
               THEN /\ ret' = Ret("flush", "err", None)
                    /\ UNCHANGED <<top_n, Checkpoint>>
               ELSE /\ store' = ingest_batch(store, write_batches(flush_buffer))
                    /\ top_n' = retain_top(top_n, Unwrap(top_n_count))
                    /\ ret' = Ret("flush", "ok", None)
                    /\ flushed_count' = total_count
                    /\ flushed_rows' = LogicalRows

\* flush without the early return on a clean state: the batch is always ingested.
flush_always_ingests(ingest_fails) ==
    /\ Call(<<"flush", ingest_fails>>)
    /\ Trail(<<"flush", ingest_fails>>, 1, ingest_fails)
    /\ UNCHANGED <<top_n, bottom_n, total_count, Config, count_ok, logical>>
    /\ flush_buffer' = EmptyMap
    /\ IF ingest_fails
       THEN /\ ret' = Ret("flush", "err", None)
            /\ UNCHANGED Checkpoint
       ELSE /\ store' = ingest_batch(store, write_batches(flush_buffer))
            /\ ret' = Ret("flush", "ok", None)
            /\ flushed_count' = total_count
            /\ flushed_rows' = LogicalRows

\* flush_buffer is taken (emptied) before the batch is built and ingested.
flush(ingest_fails) ==
    /\ Call(<<"flush", ingest_fails>>)
    /\ Trail(<<"flush", ingest_fails>>, IF is_dirty THEN 1 ELSE 0, is_dirty /\ ingest_fails)
    /\ UNCHANGED <<top_n, bottom_n, total_count, Config, count_ok, logical>>
    /\ IF ~is_dirty
       THEN /\ ret' = Ret("flush", "ok", None)
            /\ flushed_count' = total_count
            /\ flushed_rows' = LogicalRows
            /\ UNCHANGED <<flush_buffer, store>>
       ELSE /\ flush_buffer' = EmptyMap
            /\ IF ingest_fails
               THEN /\ ret' = Ret("flush", "err", None)
                    /\ UNCHANGED Checkpoint
               ELSE /\ store' = ingest_batch(store, write_batches(flush_buffer))
                    /\ ret' = Ret("flush", "ok", None)
                    /\ flushed_count' = total_count
                    /\ flushed_rows' = LogicalRows

\* ---------------------------------------------------------------------- new
\* The state is dropped (with whatever it had pending) and a new one is
\* constructed over the same store with the checkpointed total_count.
new ==
    /\ Budget(<<"new">>)
    /\ Trail(<<"new">>, 0, FALSE)
    /\ logical' = StoreRows(store)
    /\ top_n' = EmptyMap
    /\ bottom_n' = EmptyMap
    /\ flush_buffer' = EmptyMap
    /\ total_count' = flushed_count
    /\ count_ok' = (flushed_count = Cardinality(DOMAIN StoreRows(store)))
    /\ ret' = Ret("new", "ok", None)
    /\ LET after_flush == Alive /\ ret.op = "flush" /\ ret.kind = "ok"
       IN dropped' = [happened |-> TRUE,
                      after_flush |-> after_flush,
                      pending |-> flush_buffer,
                      top |-> IF after_flush THEN top_element ELSE None,
                      bottom |-> IF after_flush THEN bottom_element ELSE None]
    /\ UNCHANGED <<Config, Checkpoint>>

Init ==
    /\ top_n = EmptyMap
    /\ bottom_n = EmptyMap
    /\ flush_buffer = EmptyMap
    /\ total_count = 0
    /\ top_n_count = Some(TestCacheSize)
    /\ bottom_n_count = Some(TestCacheSize)
    /\ store = EmptyMap
    /\ debug_assertions \in BOOLEAN
    /\ flushed_count = 0
    /\ flushed_rows = EmptyMap
    /\ count_ok = TRUE
    /\ dropped = NoDrop
    /\ calls = 0
    /\ logical = EmptyMap
    /\ trail = [on_script |-> TRUE, plain |-> TRUE, drain |-> TRUE, step |-> 0, store_calls |-> 0,
                failed |-> FALSE, after_flush |-> FALSE]
    /\ ret = Ret("new", "ok", None)
    /\ Chain_new

\* Every call, the store answering any way it can.
Next ==
    \/ \E k \in Keys, r \in Rows : insert(k, r)
    \/ \E k \in Keys, scan \in {ScanErr, ScanOk(store)} : delete(k, scan)
    \/ \E scan \in {ScanErr, ScanOk(store)} : pop_top_element(scan)
    \/ \E scan \in {ScanErr, ScanOk(store)} : pop_bottom_element(scan)
    \/ \E n \in 0..MaxRetain : retain_top_n(n)
    \/ \E n \in 0..MaxRetain : retain_bottom_n(n)
    \/ retain_both_n
    \/ \E scan \in {ScanErr, ScanOk(store)} : fill_in_cache(scan)
    \/ \E ingest_fails \in BOOLEAN : flush(ingest_fails)
    \/ new

Spec == Init /\ [][Next]_vars

\* Every call, on a store that never fails.
NextReliable ==
    \/ \E k \in Keys, r \in Rows : insert(k, r)
    \/ \E k \in Keys, scan \in {ScanOk(store)} : delete(k, scan)
    \/ \E scan \in {ScanOk(store)} : pop_top_element(scan)
    \/ \E scan \in {ScanOk(store)} : pop_bottom_element(scan)
    \/ \E n \in 0..MaxRetain : retain_top_n(n)
    \/ \E n \in 0..MaxRetain : retain_bottom_n(n)
    \/ retain_both_n
    \/ \E scan \in {ScanOk(store)} : fill_in_cache(scan)
    \/ flush(FALSE)
    \/ new

\* A debug build (assertions and overflow checks on) over a store that never fails.
DebugInit == Init /\ debug_assertions
DebugReliableSpec == DebugInit /\ [][NextReliable]_vars

\* Every call, in both builds, on a store that never fails and on a state
\* constructed with any configured sizes: each of top_n_count and
\* bottom_n_count is None or Some(TestCacheSize).
RetainInit ==
    /\ top_n = EmptyMap
    /\ bottom_n = EmptyMap
    /\ flush_buffer = EmptyMap
    /\ total_count = 0
    /\ top_n_count \in {None, Some(TestCacheSize)}
    /\ bottom_n_count \in {None, Some(TestCacheSize)}
    /\ store = EmptyMap
    /\ debug_assertions \in BOOLEAN
    /\ flushed_count = 0
    /\ flushed_rows = EmptyMap
    /\ count_ok = TRUE
    /\ dropped = NoDrop
    /\ calls = 0
    /\ logical = EmptyMap
    /\ trail = [on_script |-> TRUE, plain |-> TRUE, drain |-> TRUE, step |-> 0, store_calls |-> 0,
                failed |-> FALSE, after_flush |-> FALSE]
    /\ ret = Ret("new", "ok", None)
    /\ Chain_new
RetainSpec == RetainInit /\ [][NextReliable]_vars

\* -------------------------------------------------------------------- Chain
\* Result<Message>: Ok(Message::Chunk), Ok(Message::Barrier), Err(code).
Chunk(v) == [ok |-> TRUE, kind |-> "Chunk", v |-> v]
Barrier == [ok |-> TRUE, kind |-> "Barrier", v |-> 0]
Err(code) == [ok |-> FALSE, kind |-> code, v |-> 0]
EOF == Err("EOF")
\* What an executor may answer to a poll: a chunk, a barrier, EOF, another error.
Results == {Chunk(v) : v \in 1..MaxMsg} \cup {Barrier, EOF, Err("InternalError")}

\* MockSnapshot::next_inner of the test: a barrier of its source becomes EOF.
MockSnapshot_next(r) == IF r.ok /\ r.kind = "Barrier" THEN EOF ELSE r

\* read_mview: the mview executor is polled, its answer m is the call's result.
read_mview(m) ==
    /\ mview' = Append(mview, m)
    /\ returned' = Append(returned, m)

\* switch_and_read_mview leaving the state as it is.
read_mview_without_switch(m) ==
    /\ read_mview(m)
    /\ UNCHANGED state

switch_and_read_mview(m) ==
    /\ state' = "ReadingMView"
    /\ read_mview(m)

\* next reading the mview executor whatever the state is.
next_inner_mview_only(s, m) ==
    /\ Len(returned) < MaxPolls
    /\ read_mview(m)
    /\ UNCHANGED <<state, snapshot>>
    /\ UNCHANGED top_n_vars

\* next taking every error of the snapshot executor for its EOF.
next_inner_any_error_switches(s, m) ==
    /\ Len(returned) < MaxPolls
    /\ IF state = "ReadingSnapshot"
       THEN /\ snapshot' = Append(snapshot, s)
            /\ IF ~s.ok
               THEN switch_and_read_mview(m)
               ELSE /\ returned' = Append(returned, s)
                    /\ UNCHANGED <<state, mview>>
       ELSE /\ read_mview(m)
            /\ UNCHANGED <<state, snapshot>>
    /\ UNCHANGED top_n_vars

\* Chain::next: s is what the snapshot executor answers if polled, m what the
\* mview executor answers if polled.
next_inner(s, m) ==
    /\ Len(returned) < MaxPolls
    /\ IF state = "ReadingSnapshot"
       THEN /\ snapshot' = Append(snapshot, s)
            /\ IF ~s.ok
               THEN IF s = EOF
                    THEN switch_and_read_mview(m)
                    ELSE /\ returned' = Append(returned, s)
                         /\ UNCHANGED <<state, mview>>
               ELSE /\ returned' = Append(returned, s)
                    /\ UNCHANGED <<state, mview>>
       ELSE /\ read_mview(m)
            /\ UNCHANGED <<state, snapshot>>
    /\ UNCHANGED top_n_vars

\* A Chain over executors that answer each poll any way they can; the
\* top-n state is left as constructed.
ChainInit == DebugInit
ChainNext == \E s \in Results, m \in Results : next_inner(s, m)
ChainSpec == ChainInit /\ [][ChainNext]_vars

\* ============================================================== properties
Pops == {"pop_top_element", "pop_bottom_element"}
CacheKeys == DOMAIN bottom_n \cup DOMAIN top_n
\* The (key, row) pairs the two caches hold.
CacheRows == {<<k, bottom_n[k]>> : k \in DOMAIN bottom_n} \cup {<<k, top_n[k]>> : k \in DOMAIN top_n}
RowsOf(m) == {<<k, m[k]>> : k \in DOMAIN m}
\* The state was recovered: dropped, constructed anew and refilled successfully.
Recovered == dropped.happened /\ ret.op = "fill_in_cache" /\ ret.kind = "ok"

\* C1: whenever both caches are non-empty, the largest key of bottom_n is below
\* the smallest key of top_n, so no key is in both caches.
C1_NonOverlap ==
    (Alive /\ DOMAIN bottom_n # {} /\ DOMAIN top_n # {})
        => MaxOf(DOMAIN bottom_n) < MinOf(DOMAIN top_n)

\* C2: every insert adds one to total_count, every successful delete or pop of
\* an entry takes one off, no other call on the state changes it, and it never
\* goes below zero.
C2_CountConservation ==
    [][/\ ret'.op = "insert" => total_count' = total_count + 1
       /\ (ret'.op = "delete" /\ ret'.kind = "ok") => total_count' = total_count - 1
       /\ (ret'.op \in Pops /\ ret'.kind = "ok" /\ IsSome(ret'.val))
             => total_count' = total_count - 1
       /\ (ret'.op \in Pops /\ ret'.kind = "ok" /\ ~IsSome(ret'.val))
             => total_count' = total_count
       /\ (ret'.op \in Pops \cup {"delete"} /\ ret'.kind # "ok")
             => total_count' = total_count
       /\ ret'.op \notin Pops \cup {"insert", "delete", "new"} => total_count' = total_count
       /\ total_count' >= 0]_vars

\* C3: in a state constructed with the number of rows in the store,
\* total_count is the number of logical rows (the rows in storage adjusted by
\* the pending deltas), also after an insert of a key that is already present.
C3_TotalCountAuthoritative ==
    (Alive /\ count_ok) => total_count = Cardinality(DOMAIN LogicalRows)

\* C4: with total_count > 0 and a cache non-empty, top_element is the largest
\* key of the logical rows and bottom_element the smallest.
C4_PeekGlobalExtreme ==
    (Alive /\ Positive(total_count) /\ CacheKeys # {})
        => /\ DOMAIN LogicalRows # {}
           /\ IsSome(top_element)
           /\ Unwrap(top_element)[1] = MaxOf(DOMAIN LogicalRows)
           /\ IsSome(bottom_element)
           /\ Unwrap(bottom_element)[1] = MinOf(DOMAIN LogicalRows)

\* C5: pop_top_element with total_count > 0 and a cache non-empty (no key in
\* both caches, the store not failing) returns the entry top_element showed,
\* removes it from the caches and takes one off total_count.
C5_PopTop ==
    [][(Positive(total_count) /\ CacheKeys # {} /\ DOMAIN bottom_n \cap DOMAIN top_n = {}
          /\ ret'.op = "pop_top_element" /\ ret'.kind # "err")
        => /\ ret'.kind = "ok"
           /\ ret'.val = top_element
           /\ Unwrap(top_element)[1] \notin (DOMAIN bottom_n \cup DOMAIN top_n)'
           /\ total_count' = total_count - 1]_vars

\* C6: pop_bottom_element with total_count > 0 and a cache non-empty (no key
\* in both caches, the store not failing) returns the entry bottom_element
\* showed without aborting, removes it from the caches and takes one off
\* total_count.
C6_PopBottom ==
    [][(Positive(total_count) /\ CacheKeys # {} /\ DOMAIN bottom_n \cap DOMAIN top_n = {}
          /\ ret'.op = "pop_bottom_element" /\ ret'.kind # "err")
        => /\ ret'.kind = "ok"
           /\ ret'.val = bottom_element
           /\ Unwrap(bottom_element)[1] \notin (DOMAIN bottom_n \cup DOMAIN top_n)'
           /\ total_count' = total_count - 1]_vars

\* C7: a delete of a key a cache holds, when it returns, returns a row the
\* caches held for that key, whichever cache that was.
C7_DeleteReturnsPrior ==
    [][\A key \in CacheKeys, scan \in {ScanErr, ScanOk(store)} :
          (delete(key, scan) /\ ret'.kind = "ok")
            => \/ key \in DOMAIN top_n /\ ret'.val = Some(top_n[key])
               \/ key \in DOMAIN bottom_n /\ ret'.val = Some(bottom_n[key])]_vars

\* C8: a flush that returns an error leaves flush_buffer as it was before the
\* call, so is_dirty stays true.
C8_FailedFlushKeepsDeltas ==
    [][(ret'.op = "flush" /\ ret'.kind = "err")
        => (flush_buffer' = flush_buffer /\ is_dirty')]_vars

\* C9: after a successful flush, a drop, a new state with the flushed
\* total_count and fill_in_cache, top_element and bottom_element are what the
\* dropped state showed just before the drop.
C9_DurabilityRoundTrip ==
    (Recovered /\ dropped.after_flush)
        => (top_element = dropped.top /\ bottom_element = dropped.bottom)

\* C10: a state that is dropped, whatever it had pending, and then constructed
\* anew with the total_count of the last successful flush and refilled holds
\* exactly the rows of the last flushed state and its count: no insert pending
\* at the drop is visible, no delete pending at the drop has taken effect.
C10_CrashSemantics ==
    Recovered =>
        /\ CacheRows = RowsOf(flushed_rows)
        /\ total_count = flushed_count
        /\ \A k \in DOMAIN dropped.pending :
              IF k \in DOMAIN flushed_rows
              THEN <<k, flushed_rows[k]>> \in CacheRows
              ELSE k \notin CacheKeys

\* C10's case: rows had been flushed, and at the drop an insert of a key that
\* was never flushed was pending.
C10_Witness ==
    /\ Recovered
    /\ DOMAIN flushed_rows # {}
    /\ \E k \in DOMAIN dropped.pending :
          dropped.pending[k].tag = "Insert" /\ k \notin DOMAIN flushed_rows

\* C11: a flush called directly after a flush that returned Ok makes no store
\* call, changes neither the store nor the caches, the buffer or total_count,
\* returns Ok and leaves is_dirty false.
C11_FlushIdempotent ==
    [][(Alive /\ ret.op = "flush" /\ ret.kind = "ok" /\ ret'.op = "flush")
        => /\ trail'.store_calls = 0
           /\ store' = store
           /\ UNCHANGED <<top_n, bottom_n, flush_buffer, total_count>>
           /\ ret'.kind = "ok"
           /\ ~is_dirty']_vars

\* C11's case: a second flush was called directly after a flush that returned
\* Ok and had written rows.
C11_Witness ==
    /\ ret.op = "flush"
    /\ trail.after_flush
    /\ DOMAIN StoreRows(store) # {}
    /\ store = ingest_batch(EmptyMap, write_batches([k \in DOMAIN logical |-> Insert(logical[k])]))

\* C12: after every flush that returns Ok the store holds exactly the rows at
\* construction with every insert and delete since applied in order: a key
\* inserted again has its latest row, a deleted key is absent.
C12_FlushDurable ==
    (Alive /\ ret.op = "flush" /\ ret.kind = "ok") => StoreRows(store) = logical

\* C13: on one state object is_dirty goes from true to false only by a flush
\* that returns Ok: never by an insert, a delete, a pop, a retain, a
\* reconciliation with storage or a flush that returns an error.
C13_DirtyLifecycle ==
    [][(is_dirty /\ ~is_dirty' /\ ret'.op # "new")
        => (ret'.op = "flush" /\ ret'.kind = "ok")]_vars

\* C14: fill_in_cache called while the state is dirty aborts: it makes no
\* scan and loads no storage row into either cache.
C14_FillInCacheDirtyFatal ==
    [][(is_dirty /\ ret'.op = "fill_in_cache")
        => /\ ret'.kind = "panic"
           /\ trail'.store_calls = 0
           /\ UNCHANGED <<top_n, bottom_n>>]_vars

\* C15: a delete of a key that is in neither cache, not in storage and not
\* pending aborts: total_count is not decremented, no Delete is recorded and
\* the caches are not touched.
C15_DeleteAbsentFatal ==
    [][\A key \in Keys \ (CacheKeys \cup DOMAIN StoreRows(store) \cup DOMAIN flush_buffer),
          scan \in {ScanErr, ScanOk(store)} :
          delete(key, scan)
            => /\ ret'.kind = "panic"
               /\ UNCHANGED <<total_count, flush_buffer, top_n, bottom_n>>]_vars

\* C16: a delete of a logical row that is outside both caches (the store not
\* failing) returns Ok, leaves the row deleted and takes one off total_count.
C16_DeleteUncachedRow ==
    [][\A key \in DOMAIN LogicalRows \ CacheKeys :
          delete(key, ScanOk(store))
            => /\ ret'.kind = "ok"
               /\ key \notin DOMAIN LogicalRowsOf(store', flush_buffer')
               /\ total_count' = total_count - 1]_vars

\* C17: a call whose store call (the scan of fill_in_cache or of the
\* reconciliation in delete and pop, the ingest_batch of flush) fails returns
\* the failure to its caller, having made exactly that one store call; no call
\* makes more than one store call.
C17_StoreFailurePropagated ==
    [][/\ trail'.failed => (ret'.kind = "err" /\ trail'.store_calls = 1 /\ store' = store)
       /\ trail'.store_calls <= 1]_vars

\* C17's case: a delete emptied both caches with rows left, and the scan of
\* its reconciliation failed.
C17_Witness ==
    /\ trail.failed
    /\ ret.op = "delete"
    /\ CacheKeys = {}
    /\ total_count > 0
    /\ total_count = Cardinality(DOMAIN LogicalRows)

\* C18: with capacity 1 on each side, columns [string descending, int
\* ascending] and an empty store, inserting ("ab", 4), ("abd", 3), ("abc", 3)
\* (keys 3, 1, 2) shows (top, bottom) = (ab4, ab4), (ab4, abd3), (ab4, abd3);
\* flush then leaves the state not dirty with total_count 3; pop_top_element
\* returns ("ab", 4) leaving 2, and again returns ("abc", 3) leaving 1.
C18_TestRun ==
    trail.on_script =>
        /\ trail.step = 1 => /\ top_element = Some(<<3, RowOf(3)>>)
                             /\ bottom_element = Some(<<3, RowOf(3)>>)
        /\ trail.step \in {2, 3} => /\ top_element = Some(<<3, RowOf(3)>>)
                                    /\ bottom_element = Some(<<1, RowOf(1)>>)
        /\ trail.step = 4 => ret.kind = "ok" /\ ~is_dirty /\ total_count = 3
        /\ trail.step = 5 => /\ ret = Ret("pop_top_element", "ok", Some(<<3, RowOf(3)>>))
                             /\ total_count = 2
        /\ trail.step = 6 => /\ ret = Ret("pop_top_element", "ok", Some(<<2, RowOf(2)>>))
                             /\ total_count = 1

\* C18's case: the run was made to its end.
C18_Witness ==
    /\ trail.on_script
    /\ trail.step = Len(Script)
    /\ top_n_count = Some(TestCacheSize)
    /\ bottom_n_count = Some(TestCacheSize)

\* The delta of key k in buf, "none" when there is none.
TagOf(buf, k) == IF k \in DOMAIN buf THEN buf[k].tag ELSE "none"
\* buf2 is buf with the delta of key k replaced by what the table gives;
\* "none" is no entry; an Insert or Upsert carries row r.
Collapsed(buf, buf2, k, tag, r) ==
    /\ TagOf(buf2, k) = tag
    /\ tag \in {"Insert", "DeleteInsert"} => buf2[k].row = r
    /\ DOMAIN buf2 \ {k} = DOMAIN buf \ {k}
    /\ \A x \in DOMAIN buf \ {k} : buf2[x] = buf[x]

\* C19: the pending delta of a key collapses by the table: an insert makes
\* none and Insert into Insert of the new row, Delete and Upsert into Upsert of
\* the new row; a delete that gets to record makes none, Delete and Upsert
\* into Delete and removes an Insert; the deltas of other keys stay.
C19_DeltaCollapsing ==
    [][/\ \A k \in Keys, r \in Rows :
            insert(k, r)
              => Collapsed(flush_buffer, flush_buffer', k,
                           IF TagOf(flush_buffer, k) \in {"none", "Insert"}
                           THEN "Insert" ELSE "DeleteInsert", r)
       /\ \A key \in Keys, scan \in {ScanErr, ScanOk(store)} :
            (delete(key, scan) /\ ret'.kind # "panic")
              => Collapsed(flush_buffer, flush_buffer', key,
                           IF TagOf(flush_buffer, key) = "Insert"
                           THEN "none" ELSE "Delete", None)]_vars

\* C19's case: a key in storage with a pending Delete was inserted again,
\* another key having a delta of its own.
C19_Witness ==
    /\ ret.op = "insert"
    /\ \E k \in DOMAIN flush_buffer :
          /\ flush_buffer[k].tag = "DeleteInsert"
          /\ k \in DOMAIN StoreRows(store)
          /\ DOMAIN flush_buffer # {k}

\* C20: the caches hold the extremes and the uncached rows are the middle: a
\* non-empty bottom_n holds exactly the logical keys up to its largest key, a
\* non-empty top_n exactly the logical keys from its smallest key on, and with
\* both non-empty every uncached logical key lies strictly between them.
C20_CachedExtremes ==
    Alive =>
        /\ DOMAIN bottom_n # {}
              => DOMAIN bottom_n = {k \in DOMAIN LogicalRows : k <= MaxOf(DOMAIN bottom_n)}
        /\ DOMAIN top_n # {}
              => DOMAIN top_n = {k \in DOMAIN LogicalRows : k >= MinOf(DOMAIN top_n)}
        /\ (DOMAIN bottom_n # {} /\ DOMAIN top_n # {})
              => \A k \in DOMAIN LogicalRows \ CacheKeys :
                    MaxOf(DOMAIN bottom_n) < k /\ k < MinOf(DOMAIN top_n)

\* C21: every logical row that is held in neither cache is in storage, a row
\* evicted by a retain before it was flushed included.
C21_UncachedInStorage ==
    Alive => \A k \in DOMAIN LogicalRows \ CacheKeys : k \in DOMAIN StoreRows(store)

\* C22: a flush that returns Ok leaves the buffer empty and both caches (keys
\* and rows) and total_count as they were before the call.
C22_FlushFrame ==
    [][(ret'.op = "flush" /\ ret'.kind = "ok")
        => (~is_dirty' /\ UNCHANGED <<top_n, bottom_n, total_count>>)]_vars

\* C22's case: a flush wrote its batch with more entries in a cache than the
\* cache's configured size.
C22_Witness ==
    /\ ret.op = "flush"
    /\ ret.kind = "ok"
    /\ trail.store_calls = 1
    /\ Cardinality(DOMAIN top_n) > Unwrap(top_n_count)
    /\ DOMAIN bottom_n # {}
    /\ DOMAIN bottom_n \cap DOMAIN top_n = {}

Merged == ret'.op = "delete" /\ trail'.store_calls = 1
\* The keys of seq from position lo to position hi.
KeysOf(seq, lo, hi) == {seq[i] : i \in lo..hi}

\* C24: scan_and_merge completes without aborting whatever the storage keys
\* and the buffered keys are, and for every key the scan returned: a pending
\* Delete keeps it out of the caches, a pending Insert or Upsert puts it
\* there with the buffered row, no delta for it puts it there with the
\* storage row.
C24_MergePerStorageKey ==
    [][Merged
        => /\ ret'.kind = "ok"
           /\ \A k \in DOMAIN StoreRows(store) :
                 /\ TagOf(flush_buffer', k) = "Delete" => k \notin CacheKeys'
                 /\ TagOf(flush_buffer', k) \in {"Insert", "DeleteInsert"}
                       => <<k, flush_buffer'[k].row>> \in CacheRows'
                 /\ TagOf(flush_buffer', k) = "none"
                       => <<k, StoreRows(store)[k]>> \in CacheRows']_vars

\* C25: after scan_and_merge has completed, every key with a pending Insert
\* or Upsert that the storage scan did not return is in a cache with its
\* buffered row.
C25_DeltaOnlyKeys ==
    [][(Merged /\ ret'.kind = "ok")
        => \A k \in DOMAIN flush_buffer' \ DOMAIN StoreRows(store) :
              flush_buffer'[k].tag \in {"Insert", "DeleteInsert"}
                => <<k, flush_buffer'[k].row>> \in CacheRows']_vars

\* C26: reconciliation splits the merged sequence (the storage rows with the
\* pending deltas applied, n rows) at its midpoint, the first n \div 2 rows
\* to bottom_n and the rest to top_n; fill_in_cache on empty caches splits the
\* storage rows the same way.
C26_MidpointSplit ==
    [][/\ (Merged /\ ret'.kind = "ok")
          => \E seq \in {SortedSeq(DOMAIN LogicalRowsOf(store', flush_buffer'))} :
                /\ DOMAIN bottom_n' = KeysOf(seq, 1, Len(seq) \div 2)
                /\ DOMAIN top_n' = KeysOf(seq, Len(seq) \div 2 + 1, Len(seq))
       /\ (ret'.op = "fill_in_cache" /\ ret'.kind = "ok" /\ CacheKeys = {})
          => \E seq \in {SortedSeq(DOMAIN StoreRows(store))} :
                /\ DOMAIN bottom_n' = KeysOf(seq, 1, Len(seq) \div 2)
                /\ DOMAIN top_n' = KeysOf(seq, Len(seq) \div 2 + 1, Len(seq))]_vars

\* C27: fill_in_cache and scan_and_merge load every row they reconstruct,
\* whatever the configured sizes, and no call other than a retain takes an
\* entry out of a cache to keep it within its size: insert and fill_in_cache
\* take none out, flush leaves the caches alone, a delete or pop takes out
\* the entry of its key only.
C27_NoImplicitEviction ==
    [][/\ ret'.op \in {"insert", "fill_in_cache"}
            => DOMAIN top_n \subseteq DOMAIN top_n' /\ DOMAIN bottom_n \subseteq DOMAIN bottom_n'
       /\ (ret'.op = "fill_in_cache" /\ ret'.kind = "ok")
            => DOMAIN StoreRows(store) \subseteq CacheKeys'
       /\ ret'.op = "flush" => UNCHANGED <<top_n, bottom_n>>
       /\ (ret'.op \in Pops \cup {"delete"} /\ ~Merged)
            => Cardinality(CacheKeys \ CacheKeys') <= 1
       /\ (Merged /\ ret'.kind = "ok")
            => {k \in DOMAIN StoreRows(store) : TagOf(flush_buffer', k) # "Delete"}
                  \subseteq CacheKeys']_vars

\* C27's case: a recovery loaded more rows into top_n than its configured size.
C27_Witness ==
    /\ Recovered
    /\ Cardinality(DOMAIN top_n) > Unwrap(top_n_count)
    /\ CacheKeys = DOMAIN StoreRows(store)

\* C28: a delete, and a pop through it, goes to the store exactly when, the
\* key removed and total_count decremented, both caches are empty and
\* total_count is not 0; with a cache still holding an entry, or total_count
\* at 0, the call makes no store call.
C28_ReconciliationTrigger ==
    [][/\ \A key \in Keys, scan \in {ScanErr, ScanOk(store)} :
            delete(key, scan)
              => /\ trail'.store_calls = 1
                      => (CacheKeys \ {key} = {} /\ total_count' # 0)
                 /\ (ret'.kind # "panic" /\ CacheKeys \ {key} = {} /\ total_count' # 0)
                      => trail'.store_calls = 1
       /\ ret'.op \in Pops
            => /\ trail'.store_calls = 1
                    => (Cardinality(CacheKeys) <= 1 /\ total_count' # 0)
               /\ (ret'.kind # "panic" /\ total_count # 0
                     /\ Cardinality(CacheKeys) <= 1 /\ total_count' # 0)
                    => trail'.store_calls = 1]_vars

\* C28's case: a delete took the last cached entry with rows left in storage,
\* and its scan refilled the caches.
C28_Witness ==
    /\ ret.op = "delete"
    /\ ret.kind = "ok"
    /\ trail.store_calls = 1
    /\ CacheKeys # {}
    /\ CacheKeys \subseteq DOMAIN StoreRows(store)
    /\ total_count = Cardinality(DOMAIN LogicalRows)
    /\ \E k \in DOMAIN flush_buffer : flush_buffer[k].tag = "Delete"

\* The entry of the logical rows with the largest key, with the smallest key.
LogicalTop == Some(<<MaxOf(DOMAIN logical), logical[MaxOf(DOMAIN logical)]>>)
LogicalBottom == Some(<<MinOf(DOMAIN logical), logical[MinOf(DOMAIN logical)]>>)

\* C29: on a state reached by a fill_in_cache with the right count and inserts
\* of distinct keys, with flushes, retains and pops in between, every
\* pop_top_element completes and returns the largest logical row left, taking
\* one off total_count, or None when no row is left, and every
\* pop_bottom_element the smallest: n pops in a row drain the n rows in
\* strictly descending (ascending) key order and the next returns None.
C29_Draining ==
    [][(Alive /\ count_ok /\ trail.drain)
        => /\ ret'.op = "pop_top_element"
                => /\ ret'.kind = "ok"
                   /\ ret'.val = IF DOMAIN logical = {} THEN None ELSE LogicalTop
                   /\ total_count' = Cardinality(DOMAIN logical')
           /\ ret'.op = "pop_bottom_element"
                => /\ ret'.kind = "ok"
                   /\ ret'.val = IF DOMAIN logical = {} THEN None ELSE LogicalBottom
                   /\ total_count' = Cardinality(DOMAIN logical')]_vars

\* The caches bottom and top do not overlap: max(bottom) < min(top).
Fits(bottom, top) ==
    (DOMAIN bottom # {} /\ DOMAIN top # {}) => MaxOf(DOMAIN bottom) < MinOf(DOMAIN top)
\* The step put the entry (k, r) into top_n only, into bottom_n only.
ToTop(k, r) == top_n' = MapInsert(top_n, k, r) /\ bottom_n' = bottom_n
ToBottom(k, r) == bottom_n' = MapInsert(bottom_n, k, r) /\ top_n' = top_n

\* C30: insert puts the entry into exactly one cache: into the cache with
\* strictly fewer entries whenever the key there keeps max(bottom) < min(top),
\* into the other one only when it would not, and into top_n when both caches
\* are empty.
C30_InsertDestination ==
    [][\A k \in Keys, r \in Rows :
          insert(k, r)
            => /\ ToTop(k, r) # ToBottom(k, r)
               /\ CacheKeys = {} => ToTop(k, r)
               /\ Cardinality(DOMAIN bottom_n) < Cardinality(DOMAIN top_n)
                    => (ToBottom(k, r) <=> Fits(MapInsert(bottom_n, k, r), top_n))
               /\ Cardinality(DOMAIN top_n) < Cardinality(DOMAIN bottom_n)
                    => (ToTop(k, r) <=> Fits(bottom_n, MapInsert(top_n, k, r)))]_vars

\* The map m restricted to its n largest keys, to its n smallest keys.
Largest(m, n) == [k \in {x \in DOMAIN m : Cardinality({y \in DOMAIN m : y > x}) < n} |-> m[k]]
Smallest(m, n) == [k \in {x \in DOMAIN m : Cardinality({y \in DOMAIN m : y < x}) < n} |-> m[k]]

\* C31: retain_bottom_n(n) leaves bottom_n with exactly its min(n, size)
\* smallest entries, retain_top_n(n) leaves top_n with exactly its min(n, size)
\* largest entries, retain_both_n does each with the side's configured size and
\* nothing for a side that has none; the other cache, total_count and the
\* buffer are left as they were.
C31_Retain ==
    [][/\ \A n \in 0..MaxRetain :
            retain_top_n(n) => top_n' = Largest(top_n, n) /\ bottom_n' = bottom_n
       /\ \A n \in 0..MaxRetain :
            retain_bottom_n(n) => bottom_n' = Smallest(bottom_n, n) /\ top_n' = top_n
       /\ retain_both_n
            => /\ top_n' = IF top_n_count = None THEN top_n
                           ELSE Largest(top_n, Unwrap(top_n_count))
               /\ bottom_n' = IF bottom_n_count = None THEN bottom_n
                              ELSE Smallest(bottom_n, Unwrap(bottom_n_count))
       /\ ret'.op \in {"retain_top_n", "retain_bottom_n", "retain_both_n"}
            => UNCHANGED <<total_count, flush_buffer>>]_vars

\* C31's case: retain_both_n on a state with a size for bottom_n and none
\* for top_n left top_n with more than one entry, the caches not overlapping.
C31_Witness ==
    /\ ret.op = "retain_both_n"
    /\ top_n_count = None
    /\ bottom_n_count # None
    /\ Cardinality(DOMAIN top_n) > 1
    /\ Cardinality(DOMAIN bottom_n) = Unwrap(bottom_n_count)
    /\ DOMAIN bottom_n \cap DOMAIN top_n = {}

\* The serialized value of cell cell_idx of row r: its non-null tag and datum.
CellValue(r, cell_idx) == <<1, r[cell_idx + 1]>>
\* The entries of the write batch under the cell key of key k, cell cell_idx.
EntriesAt(batch, k, cell_idx) ==
    {j \in 1..Len(batch) :
        batch[j][1] = prefixed_key(serialize_key(k) \o serialize_cell_idx(cell_idx))}

\* C32: a flush of a dirty state issues one ingest_batch whose write set
\* holds, for every key of the buffer and every cell index below NumCols,
\* exactly one entry under prefix ++ encode(key) ++ cell index: a tombstone
\* when the delta is Delete, the serialized value of that cell of the row
\* when it is Insert or DeleteInsert; and no other entry.
C32_FlushBatch ==
    [][\A ingest_fails \in BOOLEAN :
          (is_dirty /\ flush(ingest_fails))
            => \E batch \in {write_batches(flush_buffer)} :
                 /\ trail'.store_calls = 1
                 /\ Len(batch) = NumCols * Cardinality(DOMAIN flush_buffer)
                 /\ \A k \in DOMAIN flush_buffer, cell_idx \in 0..(NumCols - 1) :
                      /\ Cardinality(EntriesAt(batch, k, cell_idx)) = 1
                      /\ \A j \in EntriesAt(batch, k, cell_idx) :
                           batch[j][2] = IF flush_buffer[k] = Delete THEN None
                                         ELSE Some(CellValue(flush_buffer[k].row, cell_idx))]_vars

\* C33: with total_count = 0, top_element and bottom_element are None, and
\* pop_top_element and pop_bottom_element return Ok(None) without a store
\* call, leaving total_count, both caches and the buffer as they were.
C33_EmptyShortCircuit ==
    [][total_count = 0
         => /\ top_element = None
            /\ bottom_element = None
            /\ ret'.op \in Pops
                 => /\ ret'.kind = "ok"
                    /\ ret'.val = None
                    /\ trail'.store_calls = 0
                    /\ UNCHANGED <<total_count, top_n, bottom_n, flush_buffer>>]_vars

\* C33's case: a pop returned None on a state emptied by an earlier call,
\* the Delete of the last row still pending.
C33_Witness ==
    /\ ret.op \in Pops
    /\ ret.kind = "ok"
    /\ ret.val = None
    /\ total_count = 0
    /\ DOMAIN logical = {}
    /\ CacheKeys = {}
    /\ \E k \in DOMAIN flush_buffer : flush_buffer[k] = Delete

\* The calls that delete a key: delete itself and the two pops.
Deletes == Pops \cup {"delete"}

\* C34: when the scan of the reconciliation inside delete or a pop fails, the
\* call returns the store's error with its effects kept: the key gone from
\* the caches, its delete applied to the buffer, total_count decremented;
\* both caches are then empty while total_count is above 0.
C34_FailedDeleteKept ==
    [][/\ \A key \in Keys :
            (delete(key, ScanErr) /\ trail'.failed)
              => flush_buffer' = do_delete(flush_buffer, key)
       /\ (trail'.failed /\ ret'.op = "pop_top_element")
            => flush_buffer' = do_delete(flush_buffer, Unwrap(top_element)[1])
       /\ (trail'.failed /\ ret'.op = "pop_bottom_element")
            => flush_buffer' = do_delete(flush_buffer, Unwrap(bottom_element)[1])
       /\ (trail'.failed /\ ret'.op \in Deletes)
            => /\ ret'.kind = "err"
               /\ top_n' = EmptyMap
               /\ bottom_n' = EmptyMap
               /\ total_count' = total_count - 1
               /\ Positive(total_count')]_vars

\* C34's case: the scan inside a pop failed, leaving both caches empty, the
\* Delete of the popped key pending and rows still counted.
C34_Witness ==
    /\ trail.failed
    /\ ret.op \in Pops
    /\ ret.kind = "err"
    /\ CacheKeys = {}
    /\ total_count > 0
    /\ total_count = Cardinality(DOMAIN LogicalRows)
    /\ \E k \in DOMAIN flush_buffer : flush_buffer[k] = Delete

\* The messages among the results seq: its Ok entries, in order.
IsMessage(r) == r.ok
Messages(seq) == SelectSeq(seq, IsMessage)
\* The source and the mview executor of test_basic, and its MockSnapshot.
TestSource == <<Chunk(1), Chunk(2), Barrier>>
TestMView == <<Chunk(3), Chunk(4), Barrier>>
TestSnapshot == [i \in 1..Len(TestSource) |-> MockSnapshot_next(TestSource[i])]

\* C35: the messages next() has returned are the messages the snapshot
\* executor gave, in its order, followed by the messages the mview executor
\* gave, in its order; and the mview executor is read only once the snapshot
\* executor has answered EOF.
C35_ChainOrdering ==
    /\ Messages(returned) = Messages(snapshot) \o Messages(mview)
    /\ mview # <<>> => snapshot # <<>> /\ snapshot[Len(snapshot)] = EOF

\* C35's case: the run of test_basic, chunks 1 and 2 of the snapshot, its
\* EOF, then chunks 3 and 4 and the barrier of the mview.
C35_Witness ==
    /\ snapshot = TestSnapshot
    /\ mview = TestMView
    /\ returned = <<Chunk(1), Chunk(2), Chunk(3), Chunk(4), Barrier>>

\* The step is a next() call in which the snapshot executor answered EOF.
SnapshotEOF == snapshot' = Append(snapshot, EOF)

\* C36: a Chain is in ReadingSnapshot until its first call; it goes to
\* ReadingMView in exactly the call in which the snapshot executor answers
\* EOF, and that call polls the mview executor once and returns its answer in
\* place of the EOF; from ReadingMView it never goes back, and the snapshot
\* executor is not polled again.
C36_ChainMonotonic ==
    [][/\ returned = <<>> => state = "ReadingSnapshot"
       /\ (state = "ReadingSnapshot" /\ state' = "ReadingMView") <=> SnapshotEOF
       /\ SnapshotEOF
            => /\ Len(mview') = Len(mview) + 1
               /\ mview = SubSeq(mview', 1, Len(mview))
               /\ returned' = Append(returned, mview'[Len(mview')])
       /\ state = "ReadingMView"
            => state' = "ReadingMView" /\ snapshot' = snapshot]_vars

\* C36's case: the snapshot executor answered EOF to its second poll, the
\* call returned the chunk of the mview executor, and two more calls read
\* the mview executor only.
C36_Witness ==
    /\ state = "ReadingMView"
    /\ snapshot = <<Chunk(1), EOF>>
    /\ Len(mview) = 3
    /\ returned = <<Chunk(1)>> \o mview
    /\ mview[1] = Chunk(2)

\* The step polled the snapshot executor, the mview executor, and got r.
PolledSnapshot(r) == snapshot' = Append(snapshot, r)
PolledMView(r) == mview' = Append(mview, r)

\* C37: an error of the snapshot executor other than EOF is what the call
\* returns, the state stays ReadingSnapshot and the mview executor is not
\* polled, and every call made in ReadingSnapshot polls the snapshot
\* executor; an error of the mview executor is what the call returns, and
\* the state is ReadingMView after it.
C37_ChainErrors ==
    [][/\ \A r \in Results :
            (PolledSnapshot(r) /\ ~r.ok /\ r # EOF)
              => /\ returned' = Append(returned, r)
                 /\ state' = "ReadingSnapshot"
                 /\ mview' = mview
       /\ state = "ReadingSnapshot" => \E r \in Results : PolledSnapshot(r)
       /\ \A r \in Results :
            (PolledMView(r) /\ ~r.ok)
              => /\ returned' = Append(returned, r)
                 /\ state' = "ReadingMView"]_vars

\* C37's case: the snapshot executor failed, was polled again and gave a
\* chunk and then EOF; the mview executor failed and was polled again.
C37_Witness ==
    /\ state = "ReadingMView"
    /\ snapshot = <<Err("InternalError"), Chunk(1), EOF>>
    /\ mview = <<Err("InternalError"), Chunk(2)>>
    /\ returned = <<Err("InternalError"), Chunk(1), Err("InternalError"), Chunk(2)>>
====
